---- MODULE Spec2Model ----
(***************************************************************************)
(* Client types management screen: the useClientTypes data hook, the       *)
(* ClientTypesPage that filters the collection and reports reorder         *)
(* outcomes, and the ClientTypesTable with its drag-and-drop surface and   *)
(* its "Edit Order" draft mode.  The remote store answers each request     *)
(* with success or failure; a persist (sort-order update) that succeeds    *)
(* is applied to the remote rows as a whole.                               *)
(***************************************************************************)
EXTENDS Integers, Sequences, FiniteSets, TLC

VARIABLES
    server,            \* remote rows, in id order: [id, sort_order, is_active]
    clientTypes,       \* useClientTypes: clientTypes state
    isLoading,         \* useClientTypes: isLoading state
    error,             \* useClientTypes: error state (NULL or a message)
    hasFetchedRef,     \* useClientTypes: hasFetchedRef.current
    fetchCalls,        \* number of GetClientTypes requests outstanding
    sortCalls,         \* outstanding updateSortOrder calls, oldest first
    toggleCalls,       \* outstanding toggleActiveStatus calls, oldest first
    createCalls,       \* outstanding createClientType call, if any
    statusFilter,      \* ClientTypesPage: statusFilter state
    searchQuery,       \* ClientTypesPage: searchQuery state
    toast,             \* ClientTypesPage: toast state
    toastCount,        \* history: showToast calls made so far
    isEditOrderMode,   \* ClientTypesTable: isEditOrderMode state
    localClientTypes,  \* ClientTypesTable: localClientTypes state (the draft)
    hasOrderChanges,   \* ClientTypesTable: hasOrderChanges state
    persistCount,      \* history: UpdateClientTypeSortOrder requests issued
    gestures,          \* history: user gestures handled so far, draft moves aside
    draftEntry,        \* history: what was true when edit-order mode was entered
    lastOp,            \* history: the table handler that ran last, with its inputs
    api,               \* useApi / useGraphQL: the helper call being made
    deleteModal        \* DeleteConfirmModal: its props, its state, its onConfirm calls

vars == <<server, clientTypes, isLoading, error, hasFetchedRef, fetchCalls,
          sortCalls, toggleCalls, createCalls, statusFilter, searchQuery, toast,
          toastCount, isEditOrderMode, localClientTypes, hasOrderChanges,
          persistCount, gestures, draftEntry, lastOp, api, deleteModal>>

\* the state of what the page does not render
asideVars == <<api, deleteModal>>

\* the state of the page, its hook and its table
pageVars == <<server, clientTypes, isLoading, error, hasFetchedRef, fetchCalls,
              sortCalls, toggleCalls, createCalls, statusFilter, searchQuery,
              toast, toastCount, isEditOrderMode, localClientTypes,
              hasOrderChanges, persistCount, gestures, draftEntry, lastOp>>

----------------------------------------------------------------------------
(* Bounds of the model *)

\* number of rows in the remote table when the page is opened
NumRecords == 3

\* user gestures (drops, clicks, typed filters) handled in one run
MaxGestures == 3

\* patches a caller of the hook hands over in one run
MaxPatches == 2

\* calls of the REST and GraphQL helpers made in one run
MaxCalls == 3

\* onConfirm calls the delete confirmation makes in one run
MaxConfirms == 2

----------------------------------------------------------------------------
(* Values *)

NULL == "null"

NoDestination == -1

Ids == 1..NumRecords

\* the one non-empty search text of the model; it matches the names of the
\* records with an even id
SearchText == "corp"

NameMatches(id, q) == q = "" \/ id % 2 = 0

SortErrorMessage == "Failed to update sort order"

ToggleErrorMessage == "Failed to update status"

FetchErrorMessage == "Failed to fetch client types"

CreateErrorMessage == "Failed to create client type"

\* the remote table when the page is opened: positions 0..n-1 in id order,
\* the first row inactive
InitialRows ==
    [i \in Ids |-> [id |-> i, sort_order |-> i - 1, is_active |-> i # 1]]

initialToastState == [message |-> "", type |-> "info", isVisible |-> FALSE]

NoEntry == [active |-> FALSE, shown |-> <<>>, confirmed |-> <<>>,
            calls |-> 0, pure |-> FALSE]

Op(kind) == [kind |-> kind, noop |-> FALSE, moved |-> FALSE, sent |-> 0,
             src |-> 0, dst |-> 0]

\* the HTTP status codes the remote end answers a helper's request with
Statuses == {200, 401, 403, 500}

\* no helper call made so far
NoCall == [phase |-> "idle", helper |-> "none", hasCallback |-> FALSE,
           status |-> 0, events |-> <<>>, calls |-> 0,
           tokenExpiredCalls |-> 0]

\* the records a parent hands to the delete confirmation: the default type
\* or another, with clients or without
DeleteTargets ==
    [id : 1..2, is_default : BOOLEAN, client_count : {0, 2}, object : 1..2]

\* the delete confirmation as constructed, with the props isOpen false and
\* clientType null (an empty list stands for null)
ClosedModal ==
    [isOpen |-> FALSE, clientType |-> <<>>, acknowledgeImpact |-> FALSE,
     isDeleting |-> FALSE, inFlight |-> <<>>, confirms |-> 0,
     last |-> "none"]

\* a gesture or a timer is handled
Handled == gestures < MaxGestures /\ gestures' = gestures + 1

----------------------------------------------------------------------------
(* Sequence helpers *)

Range(s) == {s[i] : i \in 1..Len(s)}

IdsOf(s) == [i \in 1..Len(s) |-> s[i].id]

RemoveAt(s, i) == SubSeq(s, 1, i - 1) \o SubSeq(s, i + 1, Len(s))

InsertAt(s, i, x) == SubSeq(s, 1, i - 1) \o <<x>> \o SubSeq(s, i, Len(s))

\* Array.prototype.findIndex: 1-based position of the first match, 0 if none
FindIndex(s, id) ==
    IF \E i \in 1..Len(s) : s[i].id = id
    THEN CHOOSE i \in 1..Len(s) :
            s[i].id = id /\ \A j \in 1..(i - 1) : s[j].id # id
    ELSE 0

\* insertion of x into a list sorted by sort_order, after its equals
RECURSIVE InsertSorted(_, _)
InsertSorted(s, x) ==
    IF s = <<>> THEN <<x>>
    ELSE IF x.sort_order < Head(s).sort_order THEN <<x>> \o s
    ELSE <<Head(s)>> \o InsertSorted(Tail(s), x)

\* Array.prototype.sort((a, b) => a.sort_order - b.sort_order): stable
RECURSIVE SortBySortOrder(_)
SortBySortOrder(s) ==
    IF s = <<>> THEN <<>>
    ELSE InsertSorted(SortBySortOrder(SubSeq(s, 1, Len(s) - 1)), s[Len(s)])

----------------------------------------------------------------------------
(* Pure functions of the source *)

\* ClientTypesPage: the filter callback of filteredClientTypes
MatchesFilter(c, q, f) ==
    /\ NameMatches(c.id, q)
    /\ \/ f = "all"
       \/ f = "active" /\ c.is_active
       \/ f = "inactive" /\ ~c.is_active

\* ClientTypesPage: filteredClientTypes, the list handed to the table
filteredClientTypes(ct, q, f) ==
    SelectSeq(ct, LAMBDA c : MatchesFilter(c, q, f))

\* useClientTypes: transformResponse for a row that carries no is_default
\* and no clients_aggregate (the queries ask for neither)
transformResponse(row, index, hasExistingDefault) ==
    [id |-> row.id, sort_order |-> row.sort_order, is_active |-> row.is_active,
     is_default |-> (~hasExistingDefault /\ index = 0), client_count |-> 0]

\* the remote answer to GetClientTypes: order_by sort_order asc
FetchResponse(rows) == SortBySortOrder(rows)

\* useClientTypes.fetchClientTypes: rawTypes.map(transformResponse)
TransformAll(rawTypes) ==
    [i \in 1..Len(rawTypes) |-> transformResponse(rawTypes[i], i - 1, FALSE)]

\* useClientTypes.updateSortOrder: updates.forEach over the copied array
RECURSIVE ApplyEach(_, _)
ApplyEach(updated, updates) ==
    IF updates = <<>> THEN updated
    ELSE LET u == Head(updates)
             i == FindIndex(updated, u.id)
         IN  ApplyEach(IF i # 0
                       THEN [updated EXCEPT ![i].sort_order = u.sort_order]
                       ELSE updated,
                       Tail(updates))

\* useClientTypes.updateSortOrder: the updater handed to setClientTypes
OptimisticUpdate(prev, updates) == SortBySortOrder(ApplyEach(prev, updates))

\* the remote update_many: every row named by a where clause gets its _set
ServerApply(rows, updates) == ApplyEach(rows, updates)

\* useClientTypes.createClientType: maxSortOrder, the reduce from -1
MaxSortOrder(ct) ==
    IF ct = <<>> THEN -1
    ELSE CHOOSE m \in {ct[i].sort_order : i \in 1..Len(ct)} :
            \A i \in 1..Len(ct) : ct[i].sort_order <= m

\* ClientTypesTable.handleDragEnd: the two splice calls (indices from 0)
Reordered(list, sourceIndex, destinationIndex) ==
    InsertAt(RemoveAt(list, sourceIndex + 1), destinationIndex + 1,
             list[sourceIndex + 1])

\* ClientTypesTable: list.map((item, index) => ({id, sort_order: index}))
IndexUpdates(list) ==
    [i \in 1..Len(list) |-> [id |-> list[i].id, sort_order |-> i - 1]]

\* a changedUpdates filter that compares with the index in the list
ChangedUpdatesByIndex(updates, ct) ==
    SelectSeq(updates, LAMBDA u :
        LET i == FindIndex(ct, u.id)
        IN  i # 0 /\ i - 1 # u.sort_order)

\* ClientTypesTable: the changedUpdates filter
ChangedUpdates(updates, ct) ==
    SelectSeq(updates, LAMBDA u :
        LET i == FindIndex(ct, u.id)
        IN  i # 0 /\ ct[i].sort_order # u.sort_order)

\* a handleDragEnd without the "no change in position" return
handleDragEndNoSamePositionReturn(ct, sourceIndex, destinationIndex) ==
    IF destinationIndex = NoDestination THEN <<>>
    ELSE ChangedUpdates(IndexUpdates(Reordered(ct, sourceIndex, destinationIndex)), ct)

\* ClientTypesTable.handleDragEnd: the patch handed to onReorder, empty when
\* the handler returns without calling it
handleDragEnd(ct, sourceIndex, destinationIndex) ==
    IF destinationIndex = NoDestination THEN <<>>
    ELSE IF sourceIndex = destinationIndex THEN <<>>
    ELSE ChangedUpdates(IndexUpdates(Reordered(ct, sourceIndex, destinationIndex)), ct)

\* ClientTypesTable.handleSaveOrder: the patch handed to onReorder, empty
\* when the handler does not call it
handleSaveOrder(local, ct, changes) ==
    IF changes THEN ChangedUpdates(IndexUpdates(local), ct) ELSE <<>>

\* a move up that re-splices the record to the top of the draft
handleMoveUpToTop(prev, index) ==
    IF index <= 0 THEN prev
    ELSE InsertAt(RemoveAt(prev, index + 1), 1, prev[index + 1])

\* ClientTypesTable.handleMoveUp: the updater handed to setLocalClientTypes
handleMoveUp(prev, index) ==
    IF index <= 0 THEN prev
    ELSE [prev EXCEPT ![index] = prev[index + 1], ![index + 1] = prev[index]]

\* ClientTypesTable.handleMoveDown: the updater handed to setLocalClientTypes
handleMoveDown(prev, index) ==
    IF index >= Len(prev) - 1 THEN prev
    ELSE [prev EXCEPT ![index + 1] = prev[index + 2], ![index + 2] = prev[index + 1]]

\* ClientTypeCard: canMoveUp, canMoveDown (the arrows are disabled otherwise)
canMoveUp(index) == index > 0

canMoveDown(index, totalCount) == index < totalCount - 1

\* a catch branch that restores the optimistic state instead of the snapshot
RevertedStateOptimistic(call) ==
    OptimisticUpdate(call.previousState, call.updates)

\* useClientTypes.updateSortOrder, catch branch: the state it restores
RevertedState(call) == call.previousState

----------------------------------------------------------------------------
(* What is rendered *)

\* ClientTypesPage: the last branch of the main content area, the only one
\* that renders <ClientTypesTable>
TableMounted(ct, loading, err, q, f) ==
    /\ ~loading
    /\ err = NULL
    /\ Len(ct) > 0
    /\ Len(filteredClientTypes(ct, q, f)) > 0

\* the clientTypes prop of the table
Props == filteredClientTypes(clientTypes, searchQuery, statusFilter)

Mounted == TableMounted(clientTypes, isLoading, error, searchQuery, statusFilter)

\* ClientTypesTable: displayClientTypes
displayClientTypes == IF isEditOrderMode THEN localClientTypes ELSE Props

\* a table whose sync effect copies the prop in edit-order mode as well
TableStateSyncingAlways(mode, local, changes) ==
    LET props == filteredClientTypes(clientTypes', searchQuery', statusFilter')
        now   == TableMounted(clientTypes', isLoading', error', searchQuery',
                              statusFilter')
    IN  IF ~now
        THEN /\ isEditOrderMode' = FALSE
             /\ localClientTypes' = <<>>
             /\ hasOrderChanges' = FALSE
        ELSE IF ~Mounted
        THEN /\ isEditOrderMode' = FALSE
             /\ localClientTypes' = props
             /\ hasOrderChanges' = FALSE
        ELSE /\ isEditOrderMode' = mode
             /\ localClientTypes' = props
             /\ hasOrderChanges' = changes

\* The table's own state after a handler left it at (mode, local, changes)
\* and the page rendered again: a table that is not rendered has no state, a
\* table rendered anew starts from its useState initial values, and the sync
\* effect copies the prop into localClientTypes outside edit-order mode.
TableState(mode, local, changes) ==
    LET props == filteredClientTypes(clientTypes', searchQuery', statusFilter')
        now   == TableMounted(clientTypes', isLoading', error', searchQuery',
                              statusFilter')
    IN  IF ~now
        THEN /\ isEditOrderMode' = FALSE
             /\ localClientTypes' = <<>>
             /\ hasOrderChanges' = FALSE
        ELSE IF ~Mounted
        THEN /\ isEditOrderMode' = FALSE
             /\ localClientTypes' = props
             /\ hasOrderChanges' = FALSE
        ELSE /\ isEditOrderMode' = mode
             /\ localClientTypes' = (IF mode THEN local ELSE props)
             /\ hasOrderChanges' = changes

TableKept == TableState(isEditOrderMode, localClientTypes, hasOrderChanges)

\* history kept by every handler but the draft's own
History(op) ==
    /\ lastOp' = op
    /\ draftEntry' = IF isEditOrderMode'
                     THEN [NoEntry EXCEPT !.active = TRUE]
                     ELSE NoEntry

\* history of a drop, a save or a cancel: noop marks a drop onto its own
\* index or outside the list, sent is the number of entries the handler
\* handed to onReorder, moved a draft that
\* saw only moves since entry and is in another order than at entry, src and
\* dst the indices of a drop that is no such noop
TableOp(kind, src, dst, sent) ==
    [kind  |-> kind,
     sent  |-> sent,
     noop  |-> (kind = "drop" /\ (dst = NoDestination \/ src = dst)),
     src   |-> IF kind = "drop" /\ dst # NoDestination /\ src # dst
               THEN src ELSE 0,
     dst   |-> IF kind = "drop" /\ dst # NoDestination /\ src # dst
               THEN dst ELSE 0,
     moved |-> (/\ kind # "drop"
                /\ draftEntry.pure
                /\ hasOrderChanges
                /\ IdsOf(localClientTypes) # IdsOf(draftEntry.shown))]

\* history kept in the outstanding calls: the ids whose position a later
\* gesture or fetch has set since the call was issued
Overtaken(calls, ids) ==
    [i \in 1..Len(calls) |-> [calls[i] EXCEPT !.later = @ \cup ids]]

\* ClientTypeModal: isSubmitting, true while its onSubmit is awaited
isSubmitting == createCalls # <<>>

\* a user gesture on the page is handled; while the modal is submitting, its
\* overlay covers the page and its own buttons are disabled
Gesture == ~isSubmitting /\ Handled

ShowToast(message, type) ==
    /\ toast' = [message |-> message, type |-> type, isVisible |-> TRUE]
    /\ toastCount' = toastCount + 1

----------------------------------------------------------------------------
(* Operations *)

Init ==
    /\ server = InitialRows
    /\ clientTypes = <<>>
    /\ isLoading = TRUE
    /\ error = NULL
    /\ hasFetchedRef = FALSE
    /\ fetchCalls = 0
    /\ sortCalls = <<>>
    /\ toggleCalls = <<>>
    /\ createCalls = <<>>
    /\ statusFilter = "active"
    /\ searchQuery = ""
    /\ toast = initialToastState
    /\ toastCount = 0
    /\ isEditOrderMode = FALSE
    /\ localClientTypes = <<>>
    /\ hasOrderChanges = FALSE
    /\ persistCount = 0
    /\ gestures = 0
    /\ draftEntry = NoEntry
    /\ lastOp = Op("other")
    /\ api = NoCall
    /\ deleteModal = ClosedModal

\* useClientTypes.fetchClientTypes up to its await
FetchStart ==
    /\ isLoading' = TRUE
    /\ error' = NULL
    /\ fetchCalls' = fetchCalls + 1

\* useClientTypes: the "fetch data once on mount" effect
MountEffect ==
    /\ UNCHANGED asideVars
    /\ UNCHANGED gestures
    /\ ~hasFetchedRef
    /\ hasFetchedRef' = TRUE
    /\ FetchStart
    /\ UNCHANGED <<server, clientTypes, sortCalls, toggleCalls, createCalls, statusFilter,
                   searchQuery, toast, toastCount, persistCount>>
    /\ TableKept
    /\ History(Op("other"))

\* ClientTypesPage.handleRetry, the "Try Again" button of the error state;
\* the fetchClientTypes the hook returns is its refresh
handleRetry ==
    /\ UNCHANGED asideVars
    /\ Gesture
    /\ ~isLoading
    /\ error # NULL
    /\ hasFetchedRef' = FALSE
    /\ FetchStart
    /\ UNCHANGED <<server, clientTypes, sortCalls, toggleCalls, createCalls,
                   statusFilter, searchQuery, toast, toastCount, persistCount>>
    /\ TableKept
    /\ History(Op("other"))

\* useClientTypes.fetchClientTypes: the request is answered without errors,
\* with the record list or with no data
FetchOk ==
    /\ UNCHANGED asideVars
    /\ UNCHANGED gestures
    /\ fetchCalls > 0
    /\ fetchCalls' = fetchCalls - 1
    /\ \E hasList \in BOOLEAN :
          /\ clientTypes' = IF hasList THEN TransformAll(FetchResponse(server))
                                       ELSE <<>>
          /\ lastOp' = Op(IF hasList THEN "fetchOk" ELSE "fetchEmpty")
    /\ isLoading' = FALSE
    /\ sortCalls' = Overtaken(sortCalls, Range(IdsOf(server)))
    /\ UNCHANGED <<server, error, hasFetchedRef, toggleCalls, createCalls,
                   statusFilter, searchQuery, toast, toastCount, persistCount>>
    /\ TableKept
    /\ draftEntry' = IF isEditOrderMode'
                     THEN [NoEntry EXCEPT !.active = TRUE]
                     ELSE NoEntry

\* a failure handling that empties the collection
FetchFailClearing ==
    /\ UNCHANGED asideVars
    /\ UNCHANGED gestures
    /\ fetchCalls > 0
    /\ fetchCalls' = fetchCalls - 1
    /\ error' = FetchErrorMessage
    /\ isLoading' = FALSE
    /\ clientTypes' = <<>>
    /\ UNCHANGED <<server, hasFetchedRef, sortCalls, toggleCalls, createCalls,
                   statusFilter, searchQuery, toast, toastCount, persistCount>>
    /\ TableKept
    /\ History(Op("fetchFail"))

\* useClientTypes.fetchClientTypes: the request throws or carries errors
FetchFail ==
    /\ UNCHANGED asideVars
    /\ UNCHANGED gestures
    /\ fetchCalls > 0
    /\ fetchCalls' = fetchCalls - 1
    /\ error' = FetchErrorMessage
    /\ isLoading' = FALSE
    /\ UNCHANGED <<server, clientTypes, hasFetchedRef, sortCalls, toggleCalls,
                   createCalls, statusFilter, searchQuery, toast, toastCount,
                   persistCount>>
    /\ TableKept
    /\ History(Op("fetchFail"))

\* ClientTypesPage.handleReorder -> useClientTypes.updateSortOrder up to its
\* await, for a non-empty patch; (mode, local, changes) is the table state
\* the calling handler leaves
updateSortOrder(updates, kind, src, dst, mode, local, changes) ==
    /\ UNCHANGED asideVars
    /\ Gesture
    /\ error' = NULL
    /\ clientTypes' = OptimisticUpdate(clientTypes, updates)
    /\ sortCalls' = Append(Overtaken(sortCalls, Range(IdsOf(updates))),
          [updates |-> updates, previousState |-> clientTypes,
           kind |-> kind, src |-> src, dst |-> dst,
           before |-> clientTypes,
           shown |-> IF kind = "drop" THEN Props ELSE localClientTypes,
           later |-> {}])
    /\ persistCount' = persistCount + 1
    /\ UNCHANGED <<server, isLoading, hasFetchedRef, fetchCalls, toggleCalls, createCalls,
                   statusFilter, searchQuery, toast, toastCount>>
    /\ TableState(mode, local, changes)
    /\ History(TableOp(kind, src, dst, Len(updates)))

\* a handler of the table that returns without calling onReorder
NoReorder(kind, src, dst, mode, local, changes) ==
    /\ UNCHANGED asideVars
    /\ Gesture
    /\ UNCHANGED <<server, clientTypes, isLoading, error, hasFetchedRef,
                   fetchCalls, sortCalls, toggleCalls, createCalls, statusFilter,
                   searchQuery, toast, toastCount, persistCount>>
    /\ TableState(mode, local, changes)
    /\ History(TableOp(kind, src, dst, 0))

\* ClientTypesTable: a drag ends (onDragEnd of the DragDropContext)
DragEnd ==
    /\ Mounted
    /\ \E src \in 0..(Len(Props) - 1),
          dst \in {NoDestination} \cup 0..(Len(Props) - 1) :
          LET updates == handleDragEnd(Props, src, dst)
          IN  IF Len(updates) > 0
              THEN updateSortOrder(updates, "drop", src, dst, isEditOrderMode,
                                   localClientTypes, hasOrderChanges)
              ELSE NoReorder("drop", src, dst, isEditOrderMode,
                             localClientTypes, hasOrderChanges)

\* useClientTypes.updateSortOrder after its await: the mutation succeeded;
\* ClientTypesPage.handleReorder then shows the success toast
PersistOk ==
    /\ UNCHANGED asideVars
    /\ UNCHANGED gestures
    /\ \E i \in 1..Len(sortCalls) :
        /\ server' = ServerApply(server, sortCalls[i].updates)
        /\ sortCalls' = RemoveAt(sortCalls, i)
        /\ ShowToast("Sort order updated", "success")
        /\ UNCHANGED <<clientTypes, isLoading, error, hasFetchedRef, fetchCalls,
                       toggleCalls, createCalls, statusFilter, searchQuery, persistCount>>
        /\ TableKept
        /\ History(Op("persistOk"))

\* a failure handling that sends the same patch once more
PersistFailRetrying ==
    /\ UNCHANGED asideVars
    /\ UNCHANGED gestures
    /\ \E i \in 1..Len(sortCalls) :
        /\ clientTypes' = RevertedState(sortCalls[i])
        /\ error' = SortErrorMessage
        /\ sortCalls' = Append(RemoveAt(sortCalls, i), sortCalls[i])
        /\ persistCount' = persistCount + 1
        /\ persistCount < MaxGestures
        /\ ShowToast(SortErrorMessage, "error")
        /\ UNCHANGED <<server, isLoading, hasFetchedRef, fetchCalls,
                       toggleCalls, createCalls, statusFilter, searchQuery>>
        /\ TableKept
        /\ History(Op("persistFail"))

\* useClientTypes.updateSortOrder after its await: the mutation threw or
\* carried errors; ClientTypesPage.handleReorder then shows the error toast
PersistFail ==
    /\ UNCHANGED asideVars
    /\ UNCHANGED gestures
    /\ \E i \in 1..Len(sortCalls) :
        /\ clientTypes' = RevertedState(sortCalls[i])
        /\ error' = SortErrorMessage
        /\ sortCalls' = RemoveAt(sortCalls, i)
        /\ ShowToast(SortErrorMessage, "error")
        /\ UNCHANGED <<server, isLoading, hasFetchedRef, fetchCalls,
                       toggleCalls, createCalls, statusFilter, searchQuery, persistCount>>
        /\ TableKept
        /\ History(Op("persistFail"))

\* ClientTypesPage.handleToggleStatus -> toggleActiveStatus ->
\* updateClientType up to its await; the switch of a rendered row or card
ToggleStatus ==
    /\ UNCHANGED asideVars
    /\ Gesture
    /\ UNCHANGED createCalls
    /\ Mounted
    /\ error' = NULL
    /\ UNCHANGED <<server, clientTypes, isLoading, hasFetchedRef, fetchCalls,
                   sortCalls, statusFilter, searchQuery, toast, toastCount, persistCount>>
    /\ TableKept
    /\ \E c \in Range(Props) \cup Range(displayClientTypes) :
          /\ FindIndex(clientTypes, c.id) # 0
          /\ toggleCalls' = Append(toggleCalls,
                [id |-> c.id, is_active |-> ~c.is_active,
                 is_default |-> clientTypes[FindIndex(clientTypes, c.id)].is_default])
          /\ History(Op("other"))

\* useClientTypes.updateClientType after its await: the row was updated and
\* is returned; handleToggleStatus then shows the success toast
ToggleOk ==
    /\ UNCHANGED asideVars
    /\ UNCHANGED <<gestures, createCalls>>
    /\ \E i \in 1..Len(toggleCalls) :
        LET call == toggleCalls[i]
            k    == FindIndex(server, call.id)
            row  == [server[k] EXCEPT !.is_active = call.is_active]
            finalUpdatedType ==
                [transformResponse(row, 0, FALSE) EXCEPT
                    !.is_default = call.is_default]
        IN  /\ k # 0
            /\ server' = [server EXCEPT ![k] = row]
            /\ clientTypes' = [j \in 1..Len(clientTypes) |->
                                 IF clientTypes[j].id = call.id
                                 THEN finalUpdatedType ELSE clientTypes[j]]
            /\ toggleCalls' = RemoveAt(toggleCalls, i)
            /\ ShowToast(IF call.is_active THEN "has been activated"
                                           ELSE "has been deactivated",
                         "success")
            /\ UNCHANGED <<isLoading, error, hasFetchedRef, fetchCalls,
                           sortCalls, statusFilter, searchQuery, persistCount>>
            /\ TableKept
            /\ History(Op("other"))

\* useClientTypes.updateClientType after its await: the mutation threw or
\* carried errors; handleToggleStatus then shows the error toast
ToggleFail ==
    /\ UNCHANGED asideVars
    /\ UNCHANGED <<gestures, createCalls>>
    /\ \E i \in 1..Len(toggleCalls) :
        /\ error' = ToggleErrorMessage
        /\ toggleCalls' = RemoveAt(toggleCalls, i)
        /\ ShowToast(ToggleErrorMessage, "error")
        /\ UNCHANGED <<server, clientTypes, isLoading, hasFetchedRef,
                       fetchCalls, sortCalls, statusFilter, searchQuery,
                       persistCount>>
        /\ TableKept
        /\ History(Op("other"))

\* ClientTypeModal.handleSubmit -> ClientTypesPage.handleSubmit ->
\* useClientTypes.createClientType up to its await: "Add Client Type", the
\* form left at its initial is_active, and the submit button
CreateSubmit ==
    /\ UNCHANGED asideVars
    /\ Gesture
    /\ error' = NULL
    /\ createCalls' = <<[sort_order |-> MaxSortOrder(clientTypes) + 1,
                         is_active  |-> TRUE,
                         length     |-> Len(clientTypes)]>>
    /\ UNCHANGED <<server, clientTypes, isLoading, hasFetchedRef, fetchCalls,
                   sortCalls, toggleCalls, statusFilter, searchQuery, toast,
                   toastCount, persistCount>>
    /\ TableKept
    /\ History(Op("other"))

\* useClientTypes.createClientType after its await: the row was inserted and
\* is returned; handleSubmit then shows the success toast
CreateOk ==
    /\ UNCHANGED asideVars
    /\ UNCHANGED gestures
    /\ isSubmitting
    /\ LET call == createCalls[1]
           row  == [id |-> Len(server) + 1, sort_order |-> call.sort_order,
                    is_active |-> call.is_active]
           finalNewType ==
               [transformResponse(row, call.length, FALSE) EXCEPT
                   !.is_default = (call.length = 0)]
       IN  /\ server' = Append(server, row)
           /\ clientTypes' = Append(clientTypes, finalNewType)
    /\ createCalls' = <<>>
    /\ ShowToast("has been created", "success")
    /\ UNCHANGED <<isLoading, error, hasFetchedRef, fetchCalls, sortCalls,
                   toggleCalls, statusFilter, searchQuery, persistCount>>
    /\ TableKept
    /\ History(Op("other"))

\* useClientTypes.createClientType after its await: the mutation threw or
\* carried errors; handleSubmit then shows the error toast
CreateFail ==
    /\ UNCHANGED asideVars
    /\ UNCHANGED gestures
    /\ isSubmitting
    /\ error' = CreateErrorMessage
    /\ createCalls' = <<>>
    /\ ShowToast(CreateErrorMessage, "error")
    /\ UNCHANGED <<server, clientTypes, isLoading, hasFetchedRef, fetchCalls,
                   sortCalls, toggleCalls, statusFilter, searchQuery,
                   persistCount>>
    /\ TableKept
    /\ History(Op("other"))

\* ClientTypesPage: onChange of the status filter dropdown
SetStatusFilter ==
    /\ UNCHANGED asideVars
    /\ Gesture
    /\ \E f \in {"all", "active", "inactive"} :
          /\ f # statusFilter
          /\ statusFilter' = f
    /\ UNCHANGED <<server, clientTypes, isLoading, error, hasFetchedRef,
                   fetchCalls, sortCalls, toggleCalls, createCalls, searchQuery, toast, toastCount,
                   persistCount>>
    /\ TableKept
    /\ History(Op("other"))

\* ClientTypesPage: onChange of the search input
SetSearchQuery ==
    /\ UNCHANGED asideVars
    /\ Gesture
    /\ \E q \in {"", SearchText} :
          /\ q # searchQuery
          /\ searchQuery' = q
    /\ UNCHANGED <<server, clientTypes, isLoading, error, hasFetchedRef,
                   fetchCalls, sortCalls, toggleCalls, createCalls, statusFilter, toast, toastCount,
                   persistCount>>
    /\ TableKept
    /\ History(Op("other"))

\* ClientTypesPage.hideToast: the toast's timer or its close button
HideToast ==
    /\ UNCHANGED asideVars
    /\ Handled
    /\ toast.isVisible
    /\ toast' = [toast EXCEPT !.isVisible = FALSE]
    /\ UNCHANGED toastCount
    /\ UNCHANGED <<server, clientTypes, isLoading, error, hasFetchedRef,
                   fetchCalls, sortCalls, toggleCalls, createCalls, statusFilter,
                   searchQuery, persistCount>>
    /\ TableKept
    /\ History(Op("other"))

\* ClientTypesTable.handleStartEditOrder: the "Edit Order" button
StartEditOrder ==
    /\ UNCHANGED asideVars
    /\ Gesture
    /\ Mounted
    /\ ~isEditOrderMode
    /\ isEditOrderMode' = TRUE
    /\ localClientTypes' = Props
    /\ hasOrderChanges' = FALSE
    /\ draftEntry' = [active |-> TRUE, shown |-> Props,
                      confirmed |-> clientTypes, calls |-> persistCount,
                      pure |-> TRUE]
    /\ lastOp' = Op("other")
    /\ UNCHANGED <<server, clientTypes, isLoading, error, hasFetchedRef,
                   fetchCalls, sortCalls, toggleCalls, createCalls, statusFilter,
                   searchQuery, toast, toastCount, persistCount>>

\* ClientTypesTable.handleMoveUp / handleMoveDown: an enabled arrow of a card
\* is pressed; the draft is finite, so moves are not counted as gestures
MoveDraft ==
    /\ UNCHANGED asideVars
    /\ Mounted
    /\ isEditOrderMode
    /\ \E index \in 0..(Len(displayClientTypes) - 1), up \in BOOLEAN :
          /\ IF up THEN canMoveUp(index)
                   ELSE canMoveDown(index, Len(displayClientTypes))
          /\ localClientTypes' = IF up THEN handleMoveUp(localClientTypes, index)
                                       ELSE handleMoveDown(localClientTypes, index)
          /\ hasOrderChanges' = IF up /\ index <= 0 THEN hasOrderChanges ELSE TRUE
          /\ lastOp' = Op("other")
    /\ UNCHANGED <<server, clientTypes, isLoading, error, hasFetchedRef,
                   fetchCalls, sortCalls, toggleCalls, createCalls, statusFilter,
                   searchQuery, toast, toastCount, persistCount, gestures,
                   isEditOrderMode, draftEntry>>

\* ClientTypesTable.handleSaveOrder: the "Done" button
SaveOrder ==
    /\ Mounted
    /\ isEditOrderMode
    /\ LET updates == handleSaveOrder(localClientTypes, Props, hasOrderChanges)
       IN  IF Len(updates) > 0
           THEN updateSortOrder(updates, "save", 0, 0, FALSE, localClientTypes,
                                FALSE)
           ELSE NoReorder("save", 0, 0, FALSE, localClientTypes, FALSE)

\* a Cancel that hands the draft to onReorder as Done does
CancelEditOrderSaving ==
    /\ Mounted
    /\ isEditOrderMode
    /\ LET updates == handleSaveOrder(localClientTypes, Props, hasOrderChanges)
       IN  IF Len(updates) > 0
           THEN updateSortOrder(updates, "cancel", 0, 0, FALSE,
                                localClientTypes, FALSE)
           ELSE NoReorder("cancel", 0, 0, FALSE, Props, FALSE)

\* ClientTypesTable.handleCancelEditOrder: the "Cancel" button
CancelEditOrder ==
    /\ Mounted
    /\ isEditOrderMode
    /\ NoReorder("cancel", 0, 0, FALSE, Props, FALSE)

Next ==
    \/ MountEffect
    \/ handleRetry
    \/ FetchOk
    \/ FetchFail
    \/ DragEnd
    \/ PersistOk
    \/ PersistFail
    \/ ToggleStatus
    \/ ToggleOk
    \/ ToggleFail
    \/ SetStatusFilter
    \/ SetSearchQuery
    \/ HideToast
    \/ StartEditOrder
    \/ MoveDraft
    \/ SaveOrder
    \/ CancelEditOrder

\* the patches a caller of the hook may hand to updateSortOrder: one entry
\* for any id up to one past the remote rows, or an entry for that last id
\* followed by an entry for a remote row
PatchInputs ==
    LET Entry == [id : 1..(NumRecords + 1), sort_order : 0..(NumRecords - 1)]
        Low   == {e \in Entry : e.sort_order < 2}
    IN  {<<a>> : a \in Entry} \cup
        {p \in Low \X Low : p[1].id = NumRecords + 1 /\ p[2].id # p[1].id}

\* useClientTypes.updateSortOrder called with a patch of the caller's own
ApplyPatch ==
    /\ persistCount < MaxPatches
    /\ \E updates \in PatchInputs :
          updateSortOrder(updates, "patch", 0, 0, isEditOrderMode,
                          localClientTypes, hasOrderChanges)

\* the page while the create form is not used
Spec == Init /\ [][Next]_vars

ModalNext ==
    \/ Next
    \/ CreateSubmit
    \/ CreateOk
    \/ CreateFail

\* the page with its "Add Client Type" form
ModalSpec == Init /\ [][ModalNext]_vars

PatchNext ==
    \/ MountEffect
    \/ FetchOk
    \/ FetchFail
    \/ ApplyPatch
    \/ PersistOk
    \/ PersistFail

\* the hook with a caller that hands it patches
PatchSpec == Init /\ [][PatchNext]_vars

----------------------------------------------------------------------------
(* The REST helper and the GraphQL helper *)

\* Response.ok
ResponseOk(status) == status \in 200..299

\* utils/graphql, graphqlClient.request: the Error thrown for an answer that
\* is not ok; its message names the status code
GraphQLError(status) ==
    [text |-> "GraphQL request failed", code |-> status]

\* error.message.includes('401')
Includes401(message) == message.code = 401

\* onTokenExpired?.()
NotifyParent(hasCallback) ==
    IF hasCallback THEN <<"onTokenExpired">> ELSE <<>>

\* a helper is called and returns or throws before any request is made, or
\* makes its request
HelperCall(helper, ready, hasCallback) ==
    /\ api.phase = "idle"
    /\ api.calls < MaxCalls
    /\ api' = [phase       |-> IF ready THEN "sent" ELSE "idle",
               helper      |-> helper,
               hasCallback |-> hasCallback,
               status      |-> 0,
               events      |-> IF ready THEN <<"request">> ELSE <<"throw">>,
               calls       |-> api.calls + 1,
               tokenExpiredCalls |-> api.tokenExpiredCalls]
    /\ UNCHANGED <<pageVars, deleteModal>>

\* useApi.fetchWithAuth up to its await fetch: no tenant and no token throw
fetchWithAuth ==
    \E tenant \in BOOLEAN, token \in BOOLEAN, hasCallback \in BOOLEAN :
        HelperCall("rest", tenant /\ token, hasCallback)

\* useGraphQL.executeQuery up to its await graphqlClient.request: no token
\* throws
executeQuery ==
    \E token \in BOOLEAN, hasCallback \in BOOLEAN :
        HelperCall("graphql", token, hasCallback)

\* the helper's request is answered and the helper returns or throws
HelperAnswer(helper, status, events) ==
    /\ api.phase = "sent"
    /\ api.helper = helper
    /\ api' = [api EXCEPT !.phase = "idle", !.status = status,
                          !.events = @ \o events,
                          !.tokenExpiredCalls =
                              @ + Len(SelectSeq(events,
                                    LAMBDA e : e = "onTokenExpired"))]
    /\ UNCHANGED <<pageVars, deleteModal>>

\* useApi.fetchWithAuth after its await fetch; the body of an ok answer is
\* JSON or not
fetchWithAuthAnswer ==
    \E status \in Statuses, json \in BOOLEAN :
        HelperAnswer("rest", status,
            IF ~ResponseOk(status)
            THEN (IF status = 401 \/ status = 403
                  THEN NotifyParent(api.hasCallback) ELSE <<>>) \o <<"throw">>
            ELSE IF json THEN <<"return">> ELSE <<"throw">>)

\* useGraphQL.executeQuery after its await graphqlClient.request
executeQueryAnswer ==
    \E status \in Statuses :
        HelperAnswer("graphql", status,
            IF ~ResponseOk(status)
            THEN (IF Includes401(GraphQLError(status))
                  THEN NotifyParent(api.hasCallback) ELSE <<>>) \o <<"throw">>
            ELSE <<"return">>)

HelperNext ==
    \/ fetchWithAuth
    \/ executeQuery
    \/ fetchWithAuthAnswer
    \/ executeQueryAnswer

\* callers of the two helpers
HelperSpec == Init /\ [][HelperNext]_vars

----------------------------------------------------------------------------
(* The delete confirmation and the parent that renders it *)

\* DeleteConfirmModal: the modal is rendered (isOpen && clientType)
ModalRendered == deleteModal.isOpen /\ deleteModal.clientType # <<>>

\* DeleteConfirmModal: isDeleteDisabled
isDeleteDisabled ==
    \/ deleteModal.isDeleting
    \/ deleteModal.clientType = <<>>
    \/ deleteModal.clientType[1].is_default
    \/ /\ deleteModal.clientType[1].client_count > 0
       /\ ~deleteModal.acknowledgeImpact

\* the parent renders the modal open for a record; the effect on
\* [isOpen, clientType] resets the acknowledgement and the loading state
OpenDeleteModal ==
    /\ ~deleteModal.isOpen
    /\ \E c \in DeleteTargets :
          deleteModal' = [deleteModal EXCEPT
              !.isOpen = TRUE, !.clientType = <<c>>,
              !.acknowledgeImpact = FALSE, !.isDeleting = FALSE,
              !.last = "open"]
    /\ UNCHANGED <<pageVars, api>>

\* the parent renders the open modal with another clientType object (the
\* same record read anew, or another record); the effect on
\* [isOpen, clientType] runs again
ClientTypeChanges ==
    /\ deleteModal.isOpen
    /\ \E c \in DeleteTargets :
          /\ <<c>> # deleteModal.clientType
          /\ deleteModal' = [deleteModal EXCEPT
                 !.clientType = <<c>>,
                 !.acknowledgeImpact = FALSE, !.isDeleting = FALSE,
                 !.last = "props"]
    /\ UNCHANGED <<pageVars, api>>

\* DeleteConfirmModal: onChange of the acknowledgement checkbox, rendered
\* for a record that is not the default and has clients
SetAcknowledgeImpact ==
    /\ ModalRendered
    /\ ~deleteModal.clientType[1].is_default
    /\ deleteModal.clientType[1].client_count > 0
    /\ ~deleteModal.isDeleting
    /\ deleteModal' = [deleteModal EXCEPT
           !.acknowledgeImpact = ~@, !.last = "acknowledge"]
    /\ UNCHANGED <<pageVars, api>>

\* DeleteConfirmModal.handleConfirmDelete up to its await: the "Delete
\* Client Type" button, rendered for a record that is not the default
handleConfirmDelete ==
    /\ ModalRendered
    /\ ~deleteModal.clientType[1].is_default
    /\ ~isDeleteDisabled
    /\ ~(deleteModal.clientType[1].client_count > 0
           /\ ~deleteModal.acknowledgeImpact)
    /\ deleteModal.confirms < MaxConfirms
    /\ deleteModal' = [deleteModal EXCEPT
           !.isDeleting = TRUE,
           !.inFlight = Append(@, deleteModal.clientType[1]),
           !.confirms = @ + 1,
           !.last = "confirm"]
    /\ UNCHANGED <<pageVars, api>>

\* DeleteConfirmModal.handleConfirmDelete after its await: onConfirm has
\* resolved, onClose is called and the parent closes the modal
ConfirmResolved ==
    /\ \E i \in 1..Len(deleteModal.inFlight) :
          deleteModal' = [deleteModal EXCEPT
              !.inFlight = RemoveAt(@, i),
              !.isOpen = FALSE,
              !.isDeleting = FALSE,
              !.last = "resolved"]
    /\ UNCHANGED <<pageVars, api>>

\* DeleteConfirmModal.handleConfirmDelete after its await: onConfirm has
\* rejected; the modal is kept open
ConfirmRejected ==
    /\ \E i \in 1..Len(deleteModal.inFlight) :
          deleteModal' = [deleteModal EXCEPT
              !.inFlight = RemoveAt(@, i),
              !.isDeleting = FALSE,
              !.last = "rejected"]
    /\ UNCHANGED <<pageVars, api>>

\* DeleteConfirmModal: Cancel, the close button, Escape or a click on the
\* overlay call onClose unless a deletion is running
CloseDeleteModal ==
    /\ ModalRendered
    /\ ~deleteModal.isDeleting
    /\ deleteModal' = [deleteModal EXCEPT !.isOpen = FALSE, !.last = "close"]
    /\ UNCHANGED <<pageVars, api>>

DeleteNext ==
    \/ OpenDeleteModal
    \/ ClientTypeChanges
    \/ SetAcknowledgeImpact
    \/ handleConfirmDelete
    \/ ConfirmResolved
    \/ ConfirmRejected
    \/ CloseDeleteModal

\* the delete confirmation under a parent
DeleteSpec == Init /\ [][DeleteNext]_vars

----------------------------------------------------------------------------
(* Steps and states the properties speak about *)

SortErrorToast ==
    [message |-> SortErrorMessage, type |-> "error", isVisible |-> TRUE]

SortSuccessToast ==
    [message |-> "Sort order updated", type |-> "success", isVisible |-> TRUE]

\* this step settles the i-th outstanding persist call as failed
PersistFailStep(i) ==
    /\ i \in 1..Len(sortCalls)
    /\ sortCalls' = RemoveAt(sortCalls, i)
    /\ gestures' = gestures
    /\ lastOp'.kind = "persistFail"

\* this step settles the i-th outstanding persist call as succeeded
PersistOkStep(i) ==
    /\ i \in 1..Len(sortCalls)
    /\ sortCalls' = RemoveAt(sortCalls, i)
    /\ gestures' = gestures
    /\ lastOp'.kind = "persistOk"

\* this step handles a drop, a save or a cancel of the table
TableStep(kind) ==
    /\ gestures' = gestures + 1
    /\ lastOp'.kind = kind

\* sort_order of the record with this id in a list (-1 when absent)
SortOrderOf(list, id) ==
    IF FindIndex(list, id) = 0 THEN -1 ELSE list[FindIndex(list, id)].sort_order

\* the records of a list whose id is in a set, in the order of the list
Restrict(list, ids) == SelectSeq(list, LAMBDA c : c.id \in ids)

\* the persist call this step has issued
IssuedCall == sortCalls'[Len(sortCalls')]

Min(a, b) == IF a <= b THEN a ELSE b

Max(a, b) == IF a >= b THEN a ELSE b

----------------------------------------------------------------------------
(* C1: when the persist call of a reorder fails, the collection after the   *)
(* rollback is deep-equal to the collection as it was immediately before    *)
(* that gesture began, whatever other reorders were started or settled      *)
(* while the call was in flight.                                            *)
RollbackRestoresPreGesture ==
    [][\A i \in 1..Len(sortCalls) :
          PersistFailStep(i) => clientTypes' = sortCalls[i].before]_vars

\* a reorder failed and was rolled back after a second one had been started
RollbackWitness ==
    /\ error = SortErrorMessage
    /\ toast = SortErrorToast
    /\ persistCount >= 2
    /\ clientTypes # <<>>

(* C2: at most one persist call is outstanding at any time.                 *)
AtMostOnePersistOutstanding == Len(sortCalls) <= 1

(* C3: once the persist call of a patch has succeeded, every position the   *)
(* patch set is present in the local collection, unless a later gesture or  *)
(* fetch has set that record's position since; the success itself issues    *)
(* no fetch and no further persist call.                                    *)
SucceededPatchIsBaseline ==
    [][\A i \in 1..Len(sortCalls) :
          PersistOkStep(i) =>
              /\ \A k \in 1..Len(sortCalls[i].updates) :
                    LET u == sortCalls[i].updates[k]
                    IN  u.id \notin sortCalls[i].later =>
                            SortOrderOf(clientTypes', u.id) = u.sort_order
              /\ persistCount' = persistCount
              /\ fetchCalls' = fetchCalls]_vars

(* C4: a drop onto its own index, or outside the list, issues no persist    *)
(* call and leaves the collection, the draft, the error field and the toast *)
(* exactly as they were.                                                    *)
NoOpDropChangesNothing ==
    [][(TableStep("drop") /\ lastOp'.noop) =>
          UNCHANGED <<server, clientTypes, error, toast, toastCount, sortCalls,
                      persistCount, isEditOrderMode, localClientTypes,
                      hasOrderChanges, isLoading>>]_vars

\* a no-op drop was handled on a list that hides a record
NoOpDropWitness ==
    /\ lastOp.kind = "drop"
    /\ lastOp.noop
    /\ Mounted
    /\ Len(Props) < Len(clientTypes)

(* C5: when the persist call of a drop from one index of the displayed list *)
(* to another succeeds, and no later gesture or fetch has set a position of *)
(* its records since, the records that were displayed are in the spliced    *)
(* order (the dragged record at the destination index, the others in their  *)
(* former relative order) and carry the positions 0..n-1 in that order.     *)
SucceededDropIsSplice ==
    [][\A i \in 1..Len(sortCalls) :
          (/\ PersistOkStep(i)
           /\ sortCalls[i].kind = "drop"
           /\ sortCalls[i].later = {}) =>
              LET call   == sortCalls[i]
                  spliced == Reordered(call.shown, call.src, call.dst)
                  now    == Restrict(clientTypes', Range(IdsOf(call.shown)))
              IN  /\ IdsOf(now) = IdsOf(spliced)
                  /\ \A k \in 1..Len(now) : now[k].sort_order = k - 1]_vars

(* C6: the patch a drop from one index to another hands to the persist call *)
(* has |to - from| + 1 entries: the ids of the records that lay at the      *)
(* indices from the one to the other, and no other.                         *)
DropPatchCoversMovedRange ==
    [][(TableStep("drop") /\ ~lastOp'.noop) =>
          /\ persistCount' = persistCount + 1
          /\ LET call == IssuedCall
                 lo   == Min(call.src, call.dst)
                 hi   == Max(call.src, call.dst)
             IN  /\ Len(call.updates) = hi - lo + 1
                 /\ Range(IdsOf(call.updates)) =
                        {call.shown[k + 1].id : k \in lo..hi}]_vars

(* C7: moves in edit-order mode followed by Cancel issue no persist call,   *)
(* leave the collection as it was, leave edit-order mode, and leave the     *)
(* displayed order equal to the order shown when the mode was entered.      *)
CancelDiscardsDraft ==
    [][(TableStep("cancel") /\ draftEntry.pure) =>
          /\ persistCount' = draftEntry.calls
          /\ sortCalls' = sortCalls
          /\ clientTypes' = draftEntry.confirmed
          /\ server' = server
          /\ ~isEditOrderMode'
          /\ ~hasOrderChanges'
          /\ displayClientTypes' = draftEntry.shown]_vars

\* a draft that had been moved into another order was cancelled
CancelWitness ==
    /\ lastOp.kind = "cancel"
    /\ lastOp.moved
    /\ Mounted
    /\ ~isEditOrderMode

(* C8: when the persist call of a draft save fails, the table is still in   *)
(* edit-order mode and still holds the draft order that was saved.          *)
FailedSaveKeepsDraft ==
    [][\A i \in 1..Len(sortCalls) :
          (PersistFailStep(i) /\ sortCalls[i].kind = "save") =>
              /\ isEditOrderMode'
              /\ localClientTypes' = sortCalls[i].shown]_vars

(* C9: a draft save after a move, with the draft in another order than the  *)
(* collection, issues exactly one persist call; its patch holds exactly the *)
(* draft records whose draft index differs from their sort_order in the     *)
(* collection as it is at the save, each with its draft index.              *)
SavePatchIsDiffAgainstConfirmed ==
    [][(/\ TableStep("save")
        /\ hasOrderChanges
        /\ IdsOf(localClientTypes) #
               IdsOf(Restrict(clientTypes, Range(IdsOf(localClientTypes))))) =>
          /\ persistCount' = persistCount + 1
          /\ IssuedCall.updates =
                 SelectSeq(IndexUpdates(localClientTypes), LAMBDA u :
                     SortOrderOf(clientTypes, u.id) # u.sort_order)]_vars

(* C10: edit-order mode is not entered while the persist call of a drop is  *)
(* outstanding.                                                             *)
NoEditOrderWhileDropPending ==
    [][(~isEditOrderMode /\ isEditOrderMode') =>
          \A i \in 1..Len(sortCalls) : sortCalls[i].kind # "drop"]_vars

(* C11: while edit-order mode is active, a drop on the drag surface issues  *)
(* no persist call and does not change the collection.                      *)
NoDirectReorderInEditOrderMode ==
    [][(TableStep("drop") /\ isEditOrderMode) =>
          /\ persistCount' = persistCount
          /\ sortCalls' = sortCalls
          /\ clientTypes' = clientTypes]_vars

(* C12: a failed persist call makes exactly one showToast call, of the      *)
(* error type, issues no further persist request and leaves the collection  *)
(* in the state it had before the gesture; persist requests are issued only *)
(* by drops and saves, one for each non-empty patch they hand over.         *)
FailedPersistNotifiesOnce ==
    [][/\ \A i \in 1..Len(sortCalls) :
            PersistFailStep(i) =>
                /\ toastCount' = toastCount + 1
                /\ toast' = SortErrorToast
                /\ persistCount' = persistCount
                /\ clientTypes' = sortCalls[i].before
       /\ (persistCount' # persistCount) =>
            /\ TableStep("drop") \/ TableStep("save")
            /\ persistCount' = persistCount + 1
            /\ lastOp'.sent > 0
       /\ ((TableStep("drop") \/ TableStep("save")) /\ lastOp'.sent > 0) =>
            persistCount' = persistCount + 1]_vars

\* the second of two persist calls has failed after both were answered, each
\* answer with its toast
FailedPersistWitness ==
    /\ lastOp.kind = "persistFail"
    /\ toast = SortErrorToast
    /\ toastCount >= 2
    /\ sortCalls = <<>>
    /\ persistCount = 2

(* C13: in every state where the persist request of a patch is outstanding, *)
(* the local collection has every entry of that patch applied (but for the  *)
(* records a later gesture or fetch has positioned since) and is sorted by  *)
(* sort_order.                                                              *)
OutstandingPatchIsApplied ==
    \A i \in 1..Len(sortCalls) :
        /\ \A k \in 1..Len(sortCalls[i].updates) :
              LET u == sortCalls[i].updates[k]
              IN  u.id \notin sortCalls[i].later =>
                      SortOrderOf(clientTypes, u.id) = u.sort_order
        /\ \A k \in 1..(Len(clientTypes) - 1) :
              clientTypes[k].sort_order <= clientTypes[k + 1].sort_order

(* C14: whenever no reorder is pending and edit-order mode is not active,   *)
(* the sort_order values of the collection, taken in sorted order, are      *)
(* exactly 0, 1, ..., n-1.                                                  *)
SettledPositionsAreContiguous ==
    (sortCalls = <<>> /\ ~isEditOrderMode) =>
        LET sorted == SortBySortOrder(clientTypes)
        IN  \A k \in 1..Len(sorted) : sorted[k].sort_order = k - 1

(* C15: in every reachable state the array order of the collection matches  *)
(* ascending sort_order.                                                    *)
ArrayOrderIsAscending ==
    \A k \in 1..(Len(clientTypes) - 1) :
        clientTypes[k].sort_order <= clientTypes[k + 1].sort_order

(* C16: in every reachable state of the collection at most one record has   *)
(* is_default true.                                                         *)
AtMostOneDefault ==
    Cardinality({i \in 1..Len(clientTypes) : clientTypes[i].is_default}) <= 1

\* the two collections hold the same ids and every record has kept its
\* is_default, is_active and client_count
OtherFieldsKept(old, new) ==
    /\ Len(new) = Len(old)
    /\ Range(IdsOf(new)) = Range(IdsOf(old))
    /\ \A i \in 1..Len(old) :
          LET r == old[i]
              n == new[FindIndex(new, r.id)]
          IN  n = [r EXCEPT !.sort_order = n.sort_order]

\* moreover only the records with these ids have another sort_order
OnlyPositionsDiffer(old, new, ids) ==
    /\ OtherFieldsKept(old, new)
    /\ \A i \in 1..Len(old) :
          old[i].id \notin ids =>
              SortOrderOf(new, old[i].id) = old[i].sort_order

(* C17: the optimistic apply of a reorder and its success change only the   *)
(* sort_order of the records named in the patch and the array order; its    *)
(* rollback, like them, leaves the set of ids as it is and every record its *)
(* is_default, is_active and client_count.                                  *)
ReorderChangesOnlyPositions ==
    [][/\ (persistCount' = persistCount + 1) =>
            OnlyPositionsDiffer(clientTypes, clientTypes',
                                Range(IdsOf(IssuedCall.updates)))
       /\ \A i \in 1..Len(sortCalls) :
            /\ PersistOkStep(i) =>
                  OnlyPositionsDiffer(clientTypes, clientTypes',
                                      Range(IdsOf(sortCalls[i].updates)))
            /\ PersistFailStep(i) =>
                  OtherFieldsKept(clientTypes, clientTypes')]_vars

(* C18: issuing a toggle of the active status, and its answer whether       *)
(* success or failure, leave the sort_order of every record and the array   *)
(* order of the collection unchanged, also while a reorder is pending.      *)
ToggleKeepsPositions ==
    [][(toggleCalls' # toggleCalls) =>
          /\ IdsOf(clientTypes') = IdsOf(clientTypes)
          /\ \A i \in 1..Len(clientTypes) :
                clientTypes'[i].sort_order = clientTypes[i].sort_order]_vars

(* C19: a patch handed to updateSortOrder is applied as a whole or not at   *)
(* all: either every named record has the sort_order of its entry and the   *)
(* collection is sorted, or (an id is not in the collection) no record is   *)
(* changed, no request is issued and an error is signalled.                 *)
PatchIsAllOrNothing ==
    [][TableStep("patch") =>
          \/ /\ persistCount' = persistCount + 1
             /\ \A k \in 1..Len(IssuedCall.updates) :
                   LET u == IssuedCall.updates[k]
                   IN  SortOrderOf(clientTypes', u.id) = u.sort_order
             /\ \A k \in 1..(Len(clientTypes') - 1) :
                   clientTypes'[k].sort_order <= clientTypes'[k + 1].sort_order
          \/ /\ persistCount' = persistCount
             /\ clientTypes' = clientTypes
             /\ error' # NULL]_vars

\* this step settles a fetch with this outcome
FetchStep(kind) ==
    /\ fetchCalls' = fetchCalls - 1
    /\ lastOp'.kind = kind

(* C20: a fetch answered with a record list replaces the whole collection   *)
(* by the fetched records, in the order of the answer; one answered with no *)
(* list leaves the empty collection; a failed fetch sets the error field,   *)
(* leaves the collection as it was and reaches no caller (no toast is       *)
(* shown); after each of them isLoading is false.                           *)
FetchReplacesOrKeepsCollection ==
    [][/\ FetchStep("fetchOk") =>
            LET rows == FetchResponse(server)
            IN  /\ Len(clientTypes') = Len(rows)
                /\ \A i \in 1..Len(rows) :
                      /\ clientTypes'[i].id = rows[i].id
                      /\ clientTypes'[i].sort_order = rows[i].sort_order
                      /\ clientTypes'[i].is_active = rows[i].is_active
                /\ ~isLoading'
                /\ error' = error
       /\ FetchStep("fetchEmpty") =>
            /\ clientTypes' = <<>>
            /\ ~isLoading'
            /\ error' = error
       /\ FetchStep("fetchFail") =>
            /\ clientTypes' = clientTypes
            /\ error' = FetchErrorMessage
            /\ ~isLoading'
            /\ UNCHANGED <<toast, toastCount>>]_vars

\* a fetch started by "Try Again" has failed and the collection loaded
\* before is still there
FailedFetchWitness ==
    /\ lastOp.kind = "fetchFail"
    /\ error = FetchErrorMessage
    /\ ~isLoading
    /\ clientTypes # <<>>

\* this step issues a GetClientTypes request
FetchIssued == fetchCalls' = fetchCalls + 1

\* the hook as useState and useRef construct it: no fetch started so far
JustMounted ==
    /\ ~hasFetchedRef
    /\ fetchCalls = 0
    /\ clientTypes = <<>>
    /\ isLoading
    /\ error = NULL

(* C21: the number of outstanding fetch requests changes by one at a time;  *)
(* a fetch request is issued either by the mount effect's first run on the  *)
(* page just constructed or by a step that handles a "Try Again" gesture,   *)
(* one request for one gesture: no step issues a fetch without either.      *)
FetchOnlyOnMountOrRefresh ==
    [][/\ fetchCalls' \in {fetchCalls - 1, fetchCalls, fetchCalls + 1}
       /\ FetchIssued => (JustMounted \/ gestures' = gestures + 1)]_vars

\* this step has a helper's request answered with this status
AnsweredStep(status) ==
    /\ api.phase = "sent"
    /\ api'.phase = "idle"
    /\ api'.status = status

\* onTokenExpired was called, and before the error was thrown
NotifiedBeforeThrow(events) ==
    \E i, j \in 1..Len(events) :
        /\ i < j
        /\ events[i] = "onTokenExpired"
        /\ events[j] = "throw"

(* C22: whenever a request made through fetchWithAuth or executeQuery is    *)
(* answered with status 401 or 403 (and the parent handed in the callback), *)
(* onTokenExpired is called, and the error is thrown to the caller only     *)
(* after that.                                                              *)
AuthErrorNotifiesParent ==
    [][((AnsweredStep(401) \/ AnsweredStep(403)) /\ api.hasCallback) =>
          /\ NotifiedBeforeThrow(api'.events)
          /\ api'.tokenExpiredCalls = api.tokenExpiredCalls + 1]_vars

\* the entries of an ordering whose index differs from the sort_order the
\* record has in a list
IndexDiff(ordering, list) ==
    SelectSeq(IndexUpdates(ordering), LAMBDA u :
        SortOrderOf(list, u.id) # u.sort_order)

StandingEntries(call) ==
    {call.updates[k] : k \in {j \in 1..Len(call.updates) :
                                 call.updates[j].id \notin call.later}}

Swapped(list, a, b) ==
    [k \in 1..Len(list) |->
        IF k = a + 1 THEN list[b + 1]
        ELSE IF k = b + 1 THEN list[a + 1]
        ELSE list[k]]

\* two lists of records with distinct ids hold the same records
IsPermutation(s, t) == Len(s) = Len(t) /\ Range(s) = Range(t)

(* C25: entering edit-order mode copies the list the table was given into   *)
(* the draft and touches nothing else.  On every draft, move-up at an index *)
(* i > 0 exchanges the records at i-1 and i, move-down at i < n-1 those at  *)
(* i and i+1, and move-up at the first index and move-down at the last      *)
(* leave the list as it is.  While the mode lasts the draft changes only by *)
(* such an exchange, in a step that leaves the collection, the remote rows  *)
(* and the outstanding requests alone; a draft that saw only moves is a     *)
(* permutation of the list copied at entry.                                 *)
DraftMovesAreAdjacentSwaps ==
    /\ [](isEditOrderMode =>
            LET n == Len(localClientTypes)
            IN  /\ \A i \in 1..(n - 1) :
                      handleMoveUp(localClientTypes, i) =
                          Swapped(localClientTypes, i - 1, i)
                /\ \A i \in 0..(n - 2) :
                      handleMoveDown(localClientTypes, i) =
                          Swapped(localClientTypes, i, i + 1)
                /\ handleMoveUp(localClientTypes, 0) = localClientTypes
                /\ handleMoveDown(localClientTypes, n - 1) = localClientTypes
                /\ draftEntry.pure =>
                      IsPermutation(localClientTypes, draftEntry.shown))
    /\ [][(~isEditOrderMode /\ isEditOrderMode') =>
            /\ localClientTypes' = Props
            /\ UNCHANGED <<clientTypes, server, sortCalls, persistCount,
                           fetchCalls, toggleCalls, error>>]_vars
    /\ [][(/\ isEditOrderMode
           /\ isEditOrderMode'
           /\ localClientTypes' # localClientTypes) =>
            /\ \E i \in 0..(Len(localClientTypes) - 2) :
                  localClientTypes' = Swapped(localClientTypes, i, i + 1)
            /\ UNCHANGED <<clientTypes, server, sortCalls, persistCount,
                           fetchCalls, toggleCalls, error>>]_vars

\* a draft of three records was moved into another order than at entry, by
\* more than one exchange, with nothing sent
MovedDraftWitness ==
    /\ isEditOrderMode
    /\ draftEntry.pure
    /\ hasOrderChanges
    /\ Len(localClientTypes) = 3
    /\ localClientTypes[3] = draftEntry.shown[1]
    /\ clientTypes = draftEntry.confirmed
    /\ persistCount = draftEntry.calls

\* this step invokes onConfirm
ConfirmInvoked ==
    Len(deleteModal'.inFlight) = Len(deleteModal.inFlight) + 1

(* C26: the delete confirmation invokes onConfirm only for a record that is *)
(* not the default type, that has no clients or whose impact has been       *)
(* acknowledged, and only while no earlier confirmation is in flight; every *)
(* opening of the modal leaves the acknowledgement unchecked; a rejected    *)
(* onConfirm leaves the modal open; and once a confirmation is in flight    *)
(* the modal closes only in the step in which onConfirm resolves.           *)
DeleteConfirmIsGuarded ==
    [][/\ ConfirmInvoked =>
            /\ deleteModal.isOpen
            /\ ~deleteModal.clientType[1].is_default
            /\ (deleteModal.clientType[1].client_count > 0 =>
                    deleteModal.acknowledgeImpact)
            /\ deleteModal.inFlight = <<>>
       /\ (~deleteModal.isOpen /\ deleteModal'.isOpen) =>
            ~deleteModal'.acknowledgeImpact
       /\ (deleteModal'.last = "rejected" /\ deleteModal' # deleteModal) =>
            deleteModal'.isOpen = deleteModal.isOpen
       /\ (/\ deleteModal.inFlight # <<>>
           /\ deleteModal.isOpen
           /\ ~deleteModal'.isOpen) =>
            deleteModal'.last = "resolved"]_vars

(* C27: a draft save on a draft whose records are in the order of the list  *)
(* the table was given (no move was made, or the moves undid each other)    *)
(* issues no persist call and leaves the collection as it was.              *)
UnchangedDraftSavesNothing ==
    [][(/\ TableStep("save")
        /\ isEditOrderMode
        /\ IdsOf(localClientTypes) = IdsOf(Props)) =>
          /\ persistCount' = persistCount
          /\ sortCalls' = sortCalls
          /\ clientTypes' = clientTypes]_vars

(* C28: the rollback of a failed reorder undoes only position changes:      *)
(* what requests answered while the reorder was pending have put into the   *)
(* collection (records added or removed, is_active and the other fields of  *)
(* a record) is still there after the rollback.                             *)
RollbackKeepsOtherChanges ==
    [][\A i \in 1..Len(sortCalls) :
          PersistFailStep(i) => OtherFieldsKept(clientTypes, clientTypes')]_vars

\* ClientTypesPage: the "Failed to load client types" branch is rendered
LoadFailureShown == ~isLoading /\ error # NULL

(* C29: when the persist request of a reorder fails while the table is      *)
(* displayed, the page does not show its load-failure screen afterwards:    *)
(* the error field of the hook stays null, the table stays mounted and      *)
(* keeps its edit-order mode.                                               *)
FailedPersistKeepsTable ==
    [][\A i \in 1..Len(sortCalls) :
          (PersistFailStep(i) /\ Mounted) =>
              /\ ~LoadFailureShown'
              /\ Mounted'
              /\ isEditOrderMode' = isEditOrderMode]_vars

\* the entries of a draft whose record is in a list with another sort_order
\* than the draft index
DraftDiff(draft, list) ==
    SelectSeq(IndexUpdates(draft), LAMBDA u :
        /\ \E k \in 1..Len(list) : list[k].id = u.id
        /\ SortOrderOf(list, u.id) # u.sort_order)

(* C30: while edit-order mode is active a step that changes the list handed *)
(* to the table leaves the draft as it is, and the draft changes only by an *)
(* exchange of two neighbours; whenever edit-order mode is inactive and the *)
(* table is displayed, the draft equals the list handed to the table; and a *)
(* save of a moved draft sends exactly the draft records that are in that   *)
(* list with a sort_order other than their draft index (a draft record that *)
(* is no longer in the list is left out), or nothing if there are none.     *)
DraftIsIsolated ==
    /\ []((~isEditOrderMode /\ Mounted) => localClientTypes = Props)
    /\ [][(isEditOrderMode /\ isEditOrderMode') =>
            /\ (Props' # Props) => localClientTypes' = localClientTypes
            /\ (localClientTypes' # localClientTypes) =>
                  \E i \in 0..(Len(localClientTypes) - 2) :
                      localClientTypes' = Swapped(localClientTypes, i, i + 1)]_vars
    /\ [][(TableStep("save") /\ isEditOrderMode /\ hasOrderChanges) =>
            LET expected == DraftDiff(localClientTypes, Props)
            IN  IF expected = <<>>
                THEN /\ persistCount' = persistCount
                     /\ sortCalls' = sortCalls
                ELSE /\ persistCount' = persistCount + 1
                     /\ IssuedCall.updates = expected]_vars

\* a draft was saved after a toggle had taken one of its records out of the
\* list handed to the table: the patch names another record and not that one
StaleDraftSavedWitness ==
    /\ lastOp.kind = "save"
    /\ lastOp.sent > 0
    /\ sortCalls # <<>>
    /\ LET call == sortCalls[Len(sortCalls)]
           list == filteredClientTypes(call.before, searchQuery, statusFilter)
       IN  \E k \in 1..Len(call.shown) :
              /\ FindIndex(list, call.shown[k].id) = 0
              /\ \A j \in 1..Len(call.updates) :
                    call.updates[j].id # call.shown[k].id

====
